---- MODULE Spec2Model ----
(***************************************************************************)
(* The slpz command-line front-end (src/src/slpz.rs, fn main): one         *)
(* invocation is a walk through main's stages, over a small file system,   *)
(* a standard input, a standard output and a standard error.               *)
(*                                                                         *)
(* A path is the sequence of the pieces of its last component between      *)
(* dots: "replay.slp" is <<"replay", "slp">>, ".slp" is <<"", "slp">>,      *)
(* ".." is <<"", "", "">>.  A byte buffer is a sequence of numbers below    *)
(* 256.                                                                    *)
(***************************************************************************)
EXTENDS Integers, Sequences, FiniteSets, TLC

\* Longest raw byte buffer the initial files and standard input hold.
MaxLen == 2

----------------------------------------------------------------------------
(* Option values *)

NoneV == [some |-> FALSE]
Some(v) == [some |-> TRUE, val |-> v]

----------------------------------------------------------------------------
(* std::path::Path *)

Stream == <<"-">>
ReplaySlp == <<"replay", "slp">>
ReplaySlpz == <<"replay", "slpz">>
ReplayBare == <<"replay">>
ArchiveUpper == <<"archive", "SLP">>
HiddenSlp == <<"", "slp">>
OutBin == <<"out", "bin">>
Dir == <<"archive", "slp">>
DotDot == <<"", "", "">>

\* Path::file_name: None when the path ends in "..".
FileName(p) == IF p = DotDot THEN NoneV ELSE Some(p)

\* Path::extension: the part of the file name after its last dot; None when
\* there is no file name, no dot, or the only dot is the leading one.
Extension(p) ==
    IF ~FileName(p).some THEN NoneV
    ELSE IF Len(p) < 2 THEN NoneV
    ELSE IF Len(p) = 2 /\ p[1] = "" THEN NoneV
    ELSE Some(p[Len(p)])

\* Path::file_stem: the file name without its extension.
FileStem(p) == IF Extension(p).some THEN SubSeq(p, 1, Len(p) - 1) ELSE p

\* PathBuf::set_extension: false (path untouched) when there is no file
\* name; otherwise the stem followed by the new extension.
SetExtension(p, ext) ==
    IF ~FileName(p).some THEN [ok |-> FALSE, path |-> p]
    ELSE [ok |-> TRUE, path |-> Append(FileStem(p), ext)]

----------------------------------------------------------------------------
(* The codec library (slpz::compress, slpz::decompress, Options::DEFAULT)  *)

Magic == 255
DefaultLevel == 4
FastLevel == 3
SmallLevel == 12

DEFAULT == [keep |-> TRUE, recursive |-> FALSE, compress |-> NoneV,
            level |-> DefaultLevel, log |-> TRUE]

Ok(v) == [ok |-> TRUE, val |-> v]
Err == [ok |-> FALSE]

Delta(x) ==
    [i \in 1..Len(x) |-> IF i = 1 THEN x[1] ELSE (x[i] - x[i - 1]) % 256]

RECURSIVE Undelta(_)
Undelta(y) ==
    IF y = <<>> THEN <<>>
    ELSE LET init == Undelta(SubSeq(y, 1, Len(y) - 1))
             prev == IF init = <<>> THEN 0 ELSE init[Len(init)]
         IN  Append(init, (prev + y[Len(y)]) % 256)

\* compress: a header (magic, level) followed by the delta-coded bytes.
compress(level, x) == Ok(<<Magic, level>> \o Delta(x))

\* decompress: rejects a buffer without the header, else undoes the coding.
decompress(z) ==
    IF Len(z) >= 2 /\ z[1] = Magic
    THEN Ok(Undelta(SubSeq(z, 3, Len(z))))
    ELSE Err

----------------------------------------------------------------------------
(* State *)

VARIABLES
    pc,            \* main's position
    args,          \* struct Args after Args::parse
    options,       \* the Options built from args
    fs,            \* file system: path -> [kind, data]
    fs0,           \* the file system when the invocation started
    stdin,         \* bytes waiting on standard input
    stdout,        \* what was written to standard output, in order
    stderr,        \* the error messages printed, in order
    exit,          \* process exit status, set when pc = "done"
    io,            \* file, stream and codec operations performed, in order,
                   \* each with the path it was performed on
    input_data, will_compress, output_data,
    prev           \* the invocations that ended before this one

vars == <<pc, args, options, fs, fs0, stdin, stdout, stderr, exit, io,
          input_data, will_compress, output_data, prev>>

File(data) == [kind |-> "file", data |-> data]
Op(op, path) == [op |-> op, path |-> path]
Directory == [kind |-> "dir"]

IsDir(p) == p \in DOMAIN fs /\ fs[p].kind = "dir"
IsFile(p) == p \in DOMAIN fs /\ fs[p].kind = "file"

RECURSIVE SeqsUpTo(_, _)
SeqsUpTo(S, n) ==
    IF n = 0 THEN {<<>>}
    ELSE LET shorter == SeqsUpTo(S, n - 1)
         IN  shorter \cup {Append(s, b) : s \in shorter, b \in S}

Bufs == SeqsUpTo({0, 1}, MaxLen)
Contents == Bufs \cup {compress(DefaultLevel, x).val : x \in Bufs}

InputFiles == {ReplaySlp, ReplaySlpz, ReplayBare, ArchiveUpper, HiddenSlp}
Inputs == InputFiles \cup {Stream, Dir}
Outputs == {NoneV, Some(Stream), Some(OutBin), Some(Dir)}

NoArgs == [input |-> <<>>, output |-> NoneV, compress |-> FALSE,
           decompress |-> FALSE, fast |-> FALSE, small |-> FALSE,
           recursive |-> FALSE, keep |-> FALSE, remove |-> FALSE,
           quiet |-> FALSE]

\* Before main runs: the directory archive.slp exists, the input files either
\* all exist with the same content or are all missing.
Init ==
    /\ \E c \in Contents, present \in BOOLEAN :
         /\ fs = [p \in (IF present THEN InputFiles ELSE {}) \cup {Dir, DotDot}
                    |-> IF p \in {Dir, DotDot} THEN Directory ELSE File(c)]
         /\ stdin = c
    /\ fs0 = fs
    /\ pc = "parse"
    /\ args = NoArgs
    /\ options = DEFAULT
    /\ stdout = <<>>
    /\ stderr = <<>>
    /\ exit = 0
    /\ io = <<>>
    /\ input_data = <<>>
    /\ will_compress = FALSE
    /\ output_data = <<>>
    /\ prev = <<>>

----------------------------------------------------------------------------
(* fn main *)

\* The process ends with the given status after printing the messages.
Terminate(status, messages) ==
    /\ pc' = "done"
    /\ exit' = status
    /\ stderr' = stderr \o messages

\* Lines 61-82: the Options built from the parsed arguments.
BuildOptions(a) ==
    [DEFAULT EXCEPT
        !.log = ~a.quiet,
        !.recursive = a.recursive,
        !.level = IF a.fast THEN FastLevel
                  ELSE IF a.small THEN SmallLevel ELSE @,
        !.keep = IF a.remove THEN FALSE ELSE IF a.keep THEN TRUE ELSE @,
        !.compress = IF a.compress THEN Some(TRUE)
                     ELSE IF a.decompress THEN Some(FALSE) ELSE @]

\* The flag pairs clap rejects (conflicts_with).
Conflicting(a) ==
    \/ a.compress /\ a.decompress
    \/ a.fast /\ a.small
    \/ a.keep /\ a.remove

\* Args::parse and the option building, for the command line a.
Parse(a) ==
    /\ IF Conflicting(a)
       THEN /\ Terminate(2, <<"usage">>)
            /\ UNCHANGED <<args, options>>
       ELSE /\ args' = a
            /\ options' = BuildOptions(a)
            /\ pc' = "validate"
            /\ UNCHANGED <<exit, stderr>>
    /\ UNCHANGED <<fs, fs0, stdin, stdout, io, input_data, will_compress,
                   output_data, prev>>

AllArgs ==
    [input : Inputs, output : Outputs, compress : BOOLEAN,
     decompress : BOOLEAN, fast : BOOLEAN, small : BOOLEAN,
     recursive : BOOLEAN, keep : BOOLEAN, remove : BOOLEAN, quiet : BOOLEAN]

ParseArgs == pc = "parse" /\ \E a \in AllArgs : Parse(a)

\* A slip in the check of lines 84-88: the output marker is forgotten.
StreamInputWithRecursive == args.input = Stream /\ options.recursive

\* Lines 84-88: stdin/stdout cannot be combined with recursive processing.
StreamWithRecursive ==
    (args.input = Stream \/ args.output = Some(Stream)) /\ options.recursive

Validate ==
    /\ pc = "validate"
    /\ IF StreamWithRecursive
       THEN Terminate(1, <<"cannot use stdin/stdout with recursive">>)
       ELSE /\ pc' = "dircheck"
            /\ UNCHANGED <<exit, stderr>>
    /\ UNCHANGED <<args, options, fs, fs0, stdin, stdout, io, input_data,
                   will_compress, output_data, prev>>

\* What slpz::target_path can return for a directory.
TargetPathResults ==
    {"Ok", "PathNotFound", "PathInvalid", "CompressOrDecompressAmbiguous",
     "ZstdInitError"}

\* Lines 90-105: directory processing.  target_path is library code: its
\* result is any of TargetPathResults, and what it does to the files under
\* the directory is not part of this model.  Whatever it returns, main
\* returns normally afterwards.
DirCheck ==
    /\ pc = "dircheck"
    /\ IF args.input # Stream
       THEN /\ io' = Append(io, Op("is_dir", args.input))
            /\ IF IsDir(args.input)
               THEN IF args.output.some
                    THEN Terminate(1, <<"cannot specify output path when processing directories">>)
                    ELSE \E r \in TargetPathResults :
                           Terminate(0, IF r = "Ok" THEN <<>> ELSE <<r>>)
               ELSE /\ pc' = "read"
                    /\ UNCHANGED <<exit, stderr>>
       ELSE /\ pc' = "read"
            /\ UNCHANGED <<exit, stderr, io>>
    /\ UNCHANGED <<args, options, fs, fs0, stdin, stdout, input_data,
                   will_compress, output_data, prev>>

\* Lines 107-123: the whole input is read into memory.
ReadInput ==
    /\ pc = "read"
    /\ IF args.input = Stream
       THEN /\ io' = Append(io, Op("read_stdin", Stream))
            /\ input_data' = stdin
            /\ stdin' = <<>>
            /\ pc' = "determine"
            /\ UNCHANGED <<exit, stderr>>
       ELSE /\ io' = Append(io, Op("read_file", args.input))
            /\ UNCHANGED stdin
            /\ IF IsFile(args.input)
               THEN /\ input_data' = fs[args.input].data
                    /\ pc' = "determine"
                    /\ UNCHANGED <<exit, stderr>>
               ELSE /\ Terminate(1, <<"Error reading">>)
                    /\ UNCHANGED input_data
    /\ UNCHANGED <<args, options, fs, fs0, stdout, will_compress,
                   output_data, prev>>

\* A slip in lines 126-143: the extension is consulted before the flags.
ResolveDirectionExtensionFirst(opts, input) ==
    IF input # Stream /\ Extension(input) = Some("slp")
    THEN [kind |-> "ok", val |-> TRUE]
    ELSE IF input # Stream /\ Extension(input) = Some("slpz")
    THEN [kind |-> "ok", val |-> FALSE]
    ELSE IF opts.compress.some THEN [kind |-> "ok", val |-> opts.compress.val]
    ELSE IF input = Stream THEN [kind |-> "stdin"]
    ELSE [kind |-> "ambiguous"]

\* Lines 126-143: the direction, or why there is none.
ResolveDirection(opts, input) ==
    IF opts.compress.some THEN [kind |-> "ok", val |-> opts.compress.val]
    ELSE IF input = Stream THEN [kind |-> "stdin"]
    ELSE IF Extension(input) = Some("slp") THEN [kind |-> "ok", val |-> TRUE]
    ELSE IF Extension(input) = Some("slpz") THEN [kind |-> "ok", val |-> FALSE]
    ELSE [kind |-> "ambiguous"]

AmbiguousMessages ==
    <<"cannot determine whether to compress or decompress", "Use -x or -d">>
StdinMessages == <<"must specify -x or -d when using stdin">>

\* Lines 125-144: compress or decompress.
Determine ==
    /\ pc = "determine"
    /\ LET d == ResolveDirection(options, args.input)
       IN  IF d.kind = "ok"
           THEN /\ will_compress' = d.val
                /\ pc' = "process"
                /\ UNCHANGED <<exit, stderr>>
           ELSE /\ Terminate(1, IF d.kind = "stdin" THEN StdinMessages
                                                   ELSE AmbiguousMessages)
                /\ UNCHANGED will_compress
    /\ UNCHANGED <<args, options, fs, fs0, stdin, stdout, io, input_data,
                   output_data, prev>>

\* Lines 146-177: the codec is constructed (which may fail) and run once.
Process ==
    /\ pc = "process"
    /\ io' = Append(io, Op(IF will_compress THEN "new_compressor"
                                            ELSE "new_decompressor", <<>>))
    /\ \E constructed \in BOOLEAN :
         IF ~constructed
         THEN /\ Terminate(1, <<"Failed to init zstd">>)
              /\ UNCHANGED output_data
         ELSE LET r == IF will_compress
                       THEN compress(options.level, input_data)
                       ELSE decompress(input_data)
              IN  IF r.ok
                  THEN /\ output_data' = r.val
                       /\ pc' = "write"
                       /\ UNCHANGED <<exit, stderr>>
                  ELSE /\ Terminate(1, <<"Error transforming">>)
                       /\ UNCHANGED output_data
    /\ UNCHANGED <<args, options, fs, fs0, stdin, stdout, input_data,
                   will_compress, prev>>

Data(bytes) == [kind |-> "data", bytes |-> bytes]
Log(text, subject) == [kind |-> "log", text |-> text, subject |-> subject]

Verb == IF will_compress THEN "compressed" ELSE "decompressed"

\* A slip in lines 210-215: the extension is appended to the whole name, as
\* examples/test_compress.rs does with push_str.
DerivedPathAppended(input, compressing) ==
    [ok |-> FileName(input).some,
     path |-> Append(input, IF compressing THEN "slpz" ELSE "slp")]

\* A slip in lines 210-215: the direction is ignored.
DerivedPathAlwaysSlpz(input, compressing) == SetExtension(input, "slpz")

\* Lines 210-215: the output name derived from the input name.
DerivedPath(input, compressing) ==
    SetExtension(input, IF compressing THEN "slpz" ELSE "slp")

\* std::fs::write: creates or replaces the file, fails on a directory.
WriteFile(path, data) == (path :> File(data)) @@ fs

\* A slip in lines 181-187 and 203-208: the log line is printed as well.
WriteToStdoutLogged ==
    /\ io' = Append(io, Op("write_stdout", Stream))
    /\ stdout' = IF options.log
                 THEN <<Data(output_data), Log(Verb, args.input)>>
                 ELSE <<Data(output_data)>>
    /\ Terminate(0, <<>>)
    /\ UNCHANGED fs

\* Lines 181-187 and 203-208: the bytes go to standard output.
WriteToStdout ==
    /\ io' = Append(io, Op("write_stdout", Stream))
    /\ stdout' = Append(stdout, Data(output_data))
    /\ Terminate(0, <<>>)
    /\ UNCHANGED fs

\* A slip in lines 188-200: the extension of the given path is swapped too.
WriteToGivenSwapped(path) ==
    LET out == SetExtension(path, IF will_compress THEN "slpz" ELSE "slp").path
    IN  /\ io' = Append(io, Op("write_file", out))
        /\ IF IsDir(out)
           THEN /\ Terminate(1, <<"Error writing">>)
                /\ UNCHANGED <<fs, stdout>>
           ELSE /\ fs' = (out :> File(output_data)) @@ fs
                /\ stdout' = IF options.log
                             THEN Append(stdout, Log(Verb, args.input))
                             ELSE stdout
                /\ Terminate(0, <<>>)

\* Lines 188-200: the bytes go to the file named by -o.
WriteToGiven(path) ==
    /\ io' = Append(io, Op("write_file", path))
    /\ IF IsDir(path)
       THEN /\ Terminate(1, <<"Error writing">>)
            /\ UNCHANGED <<fs, stdout>>
       ELSE /\ fs' = WriteFile(path, output_data)
            /\ stdout' = IF options.log
                         THEN Append(stdout, Log(Verb, args.input))
                         ELSE stdout
            /\ Terminate(0, <<>>)

\* Lines 210-236: the bytes go to the derived name, then the input file is
\* removed unless it is kept.
WriteToDerived ==
    LET out == DerivedPath(args.input, will_compress)
        written == WriteFile(out.path, output_data)
        logged == IF options.log
                  THEN Append(stdout, Log(Verb, args.input))
                  ELSE stdout
    IN  IF ~out.ok
        THEN /\ Terminate(1, <<"Error creating output filename">>)
             /\ UNCHANGED <<fs, stdout, io>>
        ELSE IF IsDir(out.path)
        THEN /\ io' = Append(io, Op("write_file", out.path))
             /\ Terminate(1, <<"Error writing">>)
             /\ UNCHANGED <<fs, stdout>>
        ELSE IF options.keep
        THEN /\ io' = Append(io, Op("write_file", out.path))
             /\ fs' = written
             /\ stdout' = logged
             /\ Terminate(0, <<>>)
        ELSE /\ io' = io \o <<Op("write_file", out.path),
                              Op("remove_file", args.input)>>
             /\ IF args.input \in DOMAIN written
                   /\ written[args.input].kind = "file"
                THEN /\ fs' = [q \in DOMAIN written \ {args.input}
                                 |-> written[q]]
                     /\ stdout' = IF options.log
                                  THEN Append(logged, Log("removed", args.input))
                                  ELSE logged
                     /\ Terminate(0, <<>>)
                ELSE /\ fs' = written
                     /\ stdout' = logged
                     /\ Terminate(0, <<"Error removing">>)

\* Lines 179-239: the output is written.
WriteOutput ==
    /\ pc = "write"
    /\ IF args.output = Some(Stream) THEN WriteToStdout
       ELSE IF args.output.some THEN WriteToGiven(args.output.val)
       ELSE IF args.input = Stream THEN WriteToStdout
       ELSE WriteToDerived
    /\ UNCHANGED <<args, options, fs0, stdin, input_data, will_compress,
                   output_data, prev>>

\* The command lines with no direction flag, no -o and no -r.
InferArgs ==
    [input : Inputs, output : {NoneV}, compress : {FALSE},
     decompress : {FALSE}, fast : BOOLEAN, small : BOOLEAN,
     recursive : {FALSE}, keep : BOOLEAN, remove : BOOLEAN, quiet : BOOLEAN]

\* Two command lines that differ in the input only.
SameWay(a, b) == a = [b EXCEPT !.input = a.input]

\* Args::parse for a command line of InferArgs, the second invocation being
\* run the same way as the first.
ParseArgsInfer ==
    /\ pc = "parse"
    /\ \E a \in InferArgs :
         /\ IF prev = <<>> THEN TRUE ELSE SameWay(a, prev[1].args)
         /\ Parse(a)

\* Line 58: the tool is started again once the first invocation has ended;
\* the file system is what that invocation left.
Rerun ==
    /\ pc = "done"
    /\ prev = <<>>
    /\ prev' = <<[args |-> args, options |-> options, exit |-> exit,
                  stderr |-> stderr, fs0 |-> fs0,
                  will_compress |-> will_compress,
                  wrote |-> \E i \in DOMAIN io : io[i].op = "write_file"]>>
    /\ pc' = "parse"
    /\ args' = NoArgs
    /\ options' = DEFAULT
    /\ fs0' = fs
    /\ stdout' = <<>>
    /\ stderr' = <<>>
    /\ exit' = 0
    /\ io' = <<>>
    /\ input_data' = <<>>
    /\ will_compress' = FALSE
    /\ output_data' = <<>>
    /\ UNCHANGED <<fs, stdin>>

Next ==
    \/ ParseArgs
    \/ Validate
    \/ DirCheck
    \/ ReadInput
    \/ Determine
    \/ Process
    \/ WriteOutput

Spec == Init /\ [][Next]_vars

NextTwice ==
    \/ ParseArgsInfer
    \/ Validate
    \/ DirCheck
    \/ ReadInput
    \/ Determine
    \/ Process
    \/ WriteOutput
    \/ Rerun

\* Two invocations in a row, both without direction flag and without -o.
SpecTwice == Init /\ [][NextTwice]_vars

----------------------------------------------------------------------------
(* Properties *)

Done == pc = "done"
Performed(op) == \E i \in DOMAIN io : io[i].op = op
CodecConstructed == Performed("new_compressor") \/ Performed("new_decompressor")
Wrote == Performed("write_stdout") \/ Performed("write_file")
Printed(message) == \E i \in DOMAIN stderr : stderr[i] = message
Untouched == fs = fs0 /\ stdout = <<>>

\* The input file was read and the direction has been decided on.
FileDirectionDecided ==
    /\ args.input # Stream
    /\ Performed("read_file")
    /\ ~Printed("Error reading")
    /\ pc # "determine"

ResolvedTo(compressing) ==
    /\ will_compress = compressing
    /\ stderr # AmbiguousMessages
    /\ pc \in {"process", "write"} \/ CodecConstructed
    /\ ~Performed(IF compressing THEN "new_decompressor" ELSE "new_compressor")

AmbiguousFailure ==
    /\ Done
    /\ exit = 1
    /\ stderr = AmbiguousMessages
    /\ ~CodecConstructed
    /\ Untouched

\* C2: for a single file, -x or -d decides the direction whatever the
\* extension; without them "slp" means compress, "slpz" means decompress, and
\* any other name (other extension, none) ends in the ambiguous-direction
\* error with no transform.
C2_DirectionResolution ==
    FileDirectionDecided =>
        IF args.compress THEN ResolvedTo(TRUE)
        ELSE IF args.decompress THEN ResolvedTo(FALSE)
        ELSE IF Len(args.input) = 2 /\ args.input[1] # "" /\ args.input[2] = "slp"
        THEN ResolvedTo(TRUE)
        ELSE IF Len(args.input) = 2 /\ args.input[1] # "" /\ args.input[2] = "slpz"
        THEN ResolvedTo(FALSE)
        ELSE AmbiguousFailure

C2_Witness ==
    /\ FileDirectionDecided
    /\ args.input = ReplaySlp
    /\ args.decompress
    /\ will_compress = FALSE
    /\ pc = "process"

\* C5: with recursive set and "-" as input or as output, the invocation
\* ends with status 1 having performed no directory test, read, codec
\* construction, write or removal.
C5_RecursiveStreamRejected ==
    /\ pc \in {"parse", "validate"} => io = <<>> /\ Untouched
    /\ (pc \notin {"parse", "validate"}
          /\ args.recursive
          /\ (args.input = Stream \/ args.output = Some(Stream)))
        => /\ Done
           /\ exit = 1
           /\ stderr = <<"cannot use stdin/stdout with recursive">>
           /\ io = <<>>
           /\ Untouched

C5_Witness ==
    /\ Done
    /\ exit = 1
    /\ args.recursive
    /\ args.input # Stream
    /\ args.output = Some(Stream)
    /\ io = <<>>

\* The invocation transformed its input and wrote the result.
Succeeded == Done /\ exit = 0 /\ Wrote

\* The codec ran and returned bytes, so main went on to write them.
ReachedWrite ==
    /\ Done
    /\ CodecConstructed
    /\ ~Printed("Failed to init zstd")
    /\ ~Printed("Error transforming")

\* No file was created or modified since the invocation started.
NoFileWritten == \A p \in DOMAIN fs : p \in DOMAIN fs0 /\ fs[p] = fs0[p]

Entries(kind) == {i \in DOMAIN stdout : stdout[i].kind = kind}
ToStdout == args.output = Some(Stream) \/ (~args.output.some /\ args.input = Stream)

\* C3: after a successful transform of a file source the source is gone
\* when Keep is unset and is still there, unchanged, when Keep is set,
\* whichever way the destination was chosen.
C3_Retention ==
    (Succeeded /\ args.input # Stream) =>
        IF options.keep
        THEN IsFile(args.input) /\ fs[args.input] = fs0[args.input]
        ELSE args.input \notin DOMAIN fs

StructuralFailure ==
    \/ Printed("Error reading")
    \/ stderr = AmbiguousMessages
    \/ stderr = StdinMessages
    \/ Printed("Failed to init zstd")
    \/ \E r \in TargetPathResults \ {"Ok"} : Printed(r)

\* C4: every structural failure (bad root, ambiguous direction, codec
\* initialization failure, and the errors of directory processing) ends the
\* invocation with a non-zero status and no output file.
C4_StructuralFailureExit ==
    StructuralFailure => Done /\ exit # 0 /\ NoFileWritten

\* C8: "-" as input with neither -x nor -d fails with status 1 and the
\* flag-required message before standard input is read, a codec is
\* constructed or anything is written.
C8_StdinNeedsFlagBeforeIO ==
    (Done /\ args.input = Stream /\ ~args.compress /\ ~args.decompress
          /\ ~args.recursive)
        => exit = 1 /\ stderr = StdinMessages /\ io = <<>> /\ Untouched

\* C10: a single-file run with a derived destination that ends without a
\* reported error leaves the derived file holding the transformed bytes, and
\* the derived path differs from the source path that is removed.
C10_NoDataLoss ==
    (Succeeded /\ stderr = <<>> /\ ~args.output.some /\ args.input # Stream)
        => LET out == DerivedPath(args.input, will_compress).path
           IN  /\ out # args.input
               /\ IsFile(out)
               /\ fs[out].data = output_data

\* The name lines 210-215 derive, spelled out on the pieces of the name: the
\* last piece is replaced when the name has an extension, and the new
\* extension is added when it has none.
HasExtension(p) == Len(p) >= 2 /\ ~(Len(p) = 2 /\ p[1] = "")
SwappedName(p, compressing) ==
    LET ext == IF compressing THEN "slpz" ELSE "slp"
    IN  IF HasExtension(p) THEN [p EXCEPT ![Len(p)] = ext] ELSE Append(p, ext)

WrittenPaths == {io[i].path : i \in {j \in DOMAIN io : io[j].op = "write_file"}}

\* C6: with an explicit output in a single-item run the transformed bytes go
\* to exactly that destination: a path is written verbatim and nothing else
\* is created or modified (in particular not the derived name), and "-"
\* sends the bytes to standard output and writes no file.
C6_ExplicitOutputVerbatim ==
    (Done /\ args.output.some /\ ~(args.input \in DOMAIN fs0
                                    /\ fs0[args.input].kind = "dir")) =>
        IF exit # 0 THEN NoFileWritten /\ Entries("data") = {}
        ELSE IF args.output = Some(Stream)
        THEN /\ stdout = <<Data(output_data)>>
             /\ NoFileWritten
             /\ WrittenPaths = {}
        ELSE /\ IsFile(args.output.val)
             /\ fs[args.output.val] = File(output_data)
             /\ WrittenPaths = {args.output.val}
             /\ Entries("data") = {}
             /\ \A p \in DOMAIN fs \ {args.output.val} :
                    p \in DOMAIN fs0 /\ fs[p] = fs0[p]

C6_Witness ==
    /\ Succeeded
    /\ args.input = ReplaySlp
    /\ args.output = Some(OutBin)
    /\ will_compress
    /\ IsFile(OutBin)
    /\ fs[OutBin] = File(output_data)
    /\ IsFile(ReplaySlpz)
    /\ fs[ReplaySlpz] = fs0[ReplaySlpz]
    /\ fs[ReplaySlpz] # File(output_data)

Removed ==
    /\ Performed("remove_file")
    /\ ~Printed("Error removing")

\* C7 as stated: a successful item whose destination is standard output
\* prints no log line; one whose destination is a file prints exactly one
\* log line when logging is enabled, whatever the retention policy, and none
\* when it is disabled.
C7_OneLogLinePerItem ==
    Succeeded =>
        IF ToStdout THEN stdout = <<Data(output_data)>>
        ELSE IF args.quiet THEN stdout = <<>>
        ELSE Cardinality(Entries("log")) = 1 /\ Entries("data") = {}

\* C7 amended: as above, except that with logging enabled and a file
\* destination the one log line naming the transform is followed by one
\* "removed" line exactly when the source file was removed.
C7_LogLines ==
    Succeeded =>
        IF ToStdout THEN stdout = <<Data(output_data)>>
        ELSE IF args.quiet THEN stdout = <<>>
        ELSE IF Removed
        THEN stdout = <<Log(Verb, args.input), Log("removed", args.input)>>
        ELSE stdout = <<Log(Verb, args.input)>>

C7_Witness ==
    /\ Succeeded
    /\ ~args.quiet
    /\ ~args.output.some
    /\ args.remove
    /\ args.input = ReplaySlp
    /\ Len(stdout) = 2

\* C9 as stated: with no explicit output the destination is the source name
\* with its extension swapped, and a source with no extension to swap (a
\* file named without one, or "-") fails with the cannot-derive-name error
\* and writes nothing.
C9_NoExtensionCannotDerive ==
    (ReachedWrite /\ ~args.output.some) =>
        IF args.input = Stream \/ ~HasExtension(args.input)
        THEN /\ exit # 0
             /\ Printed("Error creating output filename")
             /\ NoFileWritten
             /\ stdout = <<>>
        ELSE WrittenPaths = {SwappedName(args.input, will_compress)}

\* C9 amended: with no explicit output a file source is written to its name
\* with the extension replaced by slpz on compress and slp on decompress, the
\* extension being added when the name has none; the cannot-derive-name
\* error never arises for a file that could be read (the run ends writing
\* that name, or failing to); a "-" source is written to standard output.
C9_DerivedName ==
    (ReachedWrite /\ ~args.output.some) =>
        /\ ~Printed("Error creating output filename")
        /\ IF args.input = Stream
           THEN exit = 0 /\ stdout = <<Data(output_data)>> /\ NoFileWritten
           ELSE /\ WrittenPaths = {SwappedName(args.input, will_compress)}
                /\ Entries("data") = {}
                /\ exit = 0 \/ (Printed("Error writing") /\ NoFileWritten)

C9_Witness ==
    /\ ReachedWrite
    /\ ~args.output.some
    /\ args.input = ReplayBare
    /\ args.compress
    /\ WrittenPaths = {ReplaySlpz}
    /\ exit = 0

Levels == {DefaultLevel, FastLevel, SmallLevel}

\* The first invocation compressed name.slp and the second was given the
\* derived name.slpz.
SecondOnDerived ==
    /\ Done
    /\ prev # <<>>
    /\ Extension(prev[1].args.input) = Some("slp")
    /\ prev[1].exit = 0
    /\ prev[1].wrote
    /\ args.input = SwappedName(prev[1].args.input, TRUE)

\* decompress undoes compress at every level, on the buffer the initial
\* state holds.
CodecRoundTrip ==
    (pc = "parse" /\ prev = <<>>) =>
        \A level \in Levels : decompress(compress(level, stdin).val) = Ok(stdin)

====
